---- MODULE Spec2Model ----
(***************************************************************************)
(* Model of the provider intelligence enrichment engine (src/app.py,       *)
(* class ProviderIntelligenceEngine): the cycle orchestrator (start,       *)
(* enrich_cycle), the selector (get_providers_to_enrich), the per-provider *)
(* pipeline (enrich_provider with its three concurrently awaited searches  *)
(* and the classification loop) and the persistence sink                   *)
(* (save_intelligence).                                                    *)
(*                                                                         *)
(* Text is a sequence of one-character strings, so that lower() and the    *)
(* substring test `a in b` are computed, not assumed.                      *)
(***************************************************************************)
EXTENDS Integers, Sequences, FiniteSets, TLC

VARIABLES
    directory,            \* rpin_providers: the rows, in the order the query returns them
    intel,                \* rpin_provider_intelligence: the set of stored records
    buying,               \* provider_buying_signals: the rows, in insertion order
    cycle_count,          \* self.cycle_count
    providers_enriched,   \* self.providers_enriched
    hot_leads_found,      \* self.hot_leads_found
    pc,                   \* where start()/enrich_cycle() stands
    selected,             \* enrich_cycle: providers
    i,                    \* enrich_cycle: the loop variable i (0-based offset)
    pipe,                 \* one enrich_provider task per selected provider
    now,                  \* the wall clock, in seconds (datetime.now())
    ticks,                \* how often the clock moved while a sub-batch was awaited
    faults,               \* how many steps have met a failure so far
    intelAtCycleStart,    \* history: intel when the running cycle began
    enrichedAtCycleStart, \* history: providers_enriched when the running cycle began
    csignals,             \* classification loop alone: signals_found
    cpos,                 \* classification loop alone: signals consumed so far
    cdraft,               \* classification loop alone: the intelligence dict
    nprovider,            \* _build_provider_name alone: the provider row
    display_name          \* _build_provider_name alone: the name it returned

engineVars == <<directory, intel, buying, cycle_count, providers_enriched,
                hot_leads_found, pc, selected, i, pipe, now, ticks, faults,
                intelAtCycleStart, enrichedAtCycleStart>>
nameVars == <<nprovider, display_name>>
loopVars == <<csignals, cpos, cdraft, nprovider, display_name>>
vars == <<directory, intel, buying, cycle_count, providers_enriched,
          hot_leads_found, pc, selected, i, pipe, now, ticks, faults,
          intelAtCycleStart, enrichedAtCycleStart, csignals, cpos, cdraft,
          nprovider, display_name>>

(***************************************************************************)
(* Bounds of the model.                                                    *)
(***************************************************************************)
\* cycles of start()'s `while True` that are explored
MaxCycles == 2
\* clock movements explored while pipelines are in flight
MaxTicks == 1
\* steps (a selection, a search, the resumption of a task) that meet a failure
\* in one behaviour
MaxFaults == 1
\* signals in one signals_found list of the classification loop checked alone
MaxSignals == 3
\* enrich_cycle's batch_size (10 in the source), scaled down
batch_size == 2
\* get_providers_to_enrich's per-cycle cap ([:50] in the source), scaled down
CycleLimit == 3
\* get_providers_to_enrich's pool cap (.limit(100) in the source), scaled down
PoolLimit == 4

(***************************************************************************)
(* Program constants.                                                      *)
(***************************************************************************)
EquipmentPoints == 20
ExpansionPoints == 15
DistressPoints == 30
HotLeadScore == 30
HighStrengthScore == 50
IdPrefixLen == 8
PauseSeconds == 2
CycleSleepSeconds == 300

(***************************************************************************)
(* Text: str.lower() and the substring test.                               *)
(***************************************************************************)
UpperCase == <<"A","B","C","D","E","F","G","H","I","J","K","L","M",
               "N","O","P","Q","R","S","T","U","V","W","X","Y","Z">>
LowerCase == <<"a","b","c","d","e","f","g","h","i","j","k","l","m",
               "n","o","p","q","r","s","t","u","v","w","x","y","z">>

\* str.lower() on one character
ToLower == [k \in 1..26 |-> LowerCase[k]]
LowerChar(c) ==
    LET at == {k \in 1..26 : UpperCase[k] = c}
    IN  IF at = {} THEN c ELSE ToLower[CHOOSE k \in at : TRUE]

Lower(text) == [k \in 1..Len(text) |-> LowerChar(text[k])]

\* Python's `a in b` on two strings
IsSubstring(a, b) ==
    \E k \in 0..(Len(b) - Len(a)) : \A m \in 1..Len(a) : b[k + m] = a[m]

\* `term.lower() in signal.lower()`
Contains(term, signal) == IsSubstring(Lower(term), Lower(signal))

(***************************************************************************)
(* The vocabularies: two terms of each list of __init__.                   *)
(***************************************************************************)
equipment_signals == << <<"I","P","L">>,
                        <<"I","n","M","o","d","e">> >>
expansion_signals == << <<"h","i","r","i","n","g">>,
                        <<"e","x","p","a","n","d","i","n","g">> >>
distress_signals == << <<"c","l","o","s","i","n","g">>,
                       <<"f","o","r"," ","s","a","l","e">> >>

(***************************************************************************)
(* Signals a source can return.  NonStr stands for a JSON value that is    *)
(* truthy but no string (search_duckduckgo appends data['Abstract']        *)
(* unchecked): signal.lower() raises on it.                                *)
(***************************************************************************)
NonStr == <<"<non-str>">>
IsStr(signal) == signal # NonStr

sIpl == <<"i","p","l">>
sBoth == <<"I","P","L"," ","I","n","M","o","d","e">>
sHire == <<"H","i","r","i","n","g">>
sGrow == <<"e","x","p","a","n","d","i","n","g">>
sClose == <<"c","l","o","s","i","n","g">>
sMulti == <<"m","u","l","t","i","p","l","e">>
sSpa == <<"s","p","a">>
sMix == <<"h","i","r","i","n","g"," ","c","l","o","s","i","n","g">>

SignalTexts == {sIpl, sBoth, sHire, sGrow, sClose, sMulti, sSpa, sMix}

Range(f) == {f[k] : k \in DOMAIN f}
Vocabulary ==
    Range(equipment_signals) \cup Range(expansion_signals) \cup Range(distress_signals)

\* Contains, evaluated once for every term and every signal text of the model
MatchTable == [term \in Vocabulary |-> {signal \in SignalTexts : Contains(term, signal)}]
Matches(term, signal) == signal \in MatchTable[term]

(***************************************************************************)
(* enrich_provider, lines 142-149 and 166-188: the intelligence dict and   *)
(* the classification loop.  equipment_data is a dict keyed by the term,   *)
(* market_insights a dict of flags; both are functions here.               *)
(***************************************************************************)
NewIntelligence ==
    [equipment_data |-> <<>>, market_insights |-> <<>>, opportunity_score |-> 0]

\* d[key] = value on a dict
DictSet(d, key, value) ==
    [k \in (DOMAIN d) \cup {key} |-> IF k = key THEN value ELSE d[k]]

EquipmentEntry(t) == [detected |-> TRUE, source |-> "web_search", timestamp |-> t]

\* a faulty CheckEquipment: the score counts each term once
CheckEquipment_OncePerTerm(draft, equipment, signal, t) ==
    IF Matches(equipment, signal)
    THEN [draft EXCEPT
            !.equipment_data = DictSet(@, equipment, EquipmentEntry(t)),
            !.opportunity_score =
                IF equipment \in DOMAIN draft.equipment_data
                THEN @ ELSE @ + EquipmentPoints]
    ELSE draft

\* a faulty CheckEquipment: the entry is keyed by the lowered term
CheckEquipment_LoweredKey(draft, equipment, signal, t) ==
    IF Matches(equipment, signal)
    THEN [draft EXCEPT
            !.equipment_data = DictSet(@, Lower(equipment), EquipmentEntry(t)),
            !.opportunity_score = @ + EquipmentPoints]
    ELSE draft

\* lines 170-176, one pass of the body of `for equipment in ...`
CheckEquipment(draft, equipment, signal, t) ==
    IF Matches(equipment, signal)
    THEN [draft EXCEPT
            !.equipment_data = DictSet(@, equipment, EquipmentEntry(t)),
            !.opportunity_score = @ + EquipmentPoints]
    ELSE draft

\* a faulty CheckExpansion: expansion is ignored once distress was seen
CheckExpansion_UnlessDistress(draft, expansion, signal) ==
    IF Matches(expansion, signal) /\ "distress_signal" \notin DOMAIN draft.market_insights
    THEN [draft EXCEPT
            !.market_insights = DictSet(@, "expansion_signal", TRUE),
            !.opportunity_score = @ + ExpansionPoints]
    ELSE draft

\* lines 180-182
CheckExpansion(draft, expansion, signal) ==
    IF Matches(expansion, signal)
    THEN [draft EXCEPT
            !.market_insights = DictSet(@, "expansion_signal", TRUE),
            !.opportunity_score = @ + ExpansionPoints]
    ELSE draft

\* lines 186-188
CheckDistress(draft, distress, signal) ==
    IF Matches(distress, signal)
    THEN [draft EXCEPT
            !.market_insights = DictSet(@, "distress_signal", TRUE),
            !.opportunity_score = @ - DistressPoints]
    ELSE draft

RECURSIVE EquipmentLoop(_, _, _, _)
EquipmentLoop(draft, signal, t, k) ==
    IF k > Len(equipment_signals) THEN draft
    ELSE EquipmentLoop(CheckEquipment(draft, equipment_signals[k], signal, t),
                       signal, t, k + 1)

RECURSIVE ExpansionLoop(_, _, _)
ExpansionLoop(draft, signal, k) ==
    IF k > Len(expansion_signals) THEN draft
    ELSE ExpansionLoop(CheckExpansion(draft, expansion_signals[k], signal),
                       signal, k + 1)

RECURSIVE DistressLoop(_, _, _)
DistressLoop(draft, signal, k) ==
    IF k > Len(distress_signals) THEN draft
    ELSE DistressLoop(CheckDistress(draft, distress_signals[k], signal),
                      signal, k + 1)

\* the body of `for signal in signals_found`, for a signal that is a string
AnalyzeSignal(draft, signal, t) ==
    DistressLoop(ExpansionLoop(EquipmentLoop(draft, signal, t, 1), signal, 1),
                 signal, 1)

RECURSIVE AnalyzeFrom(_, _, _, _)
AnalyzeFrom(draft, signals, t, k) ==
    IF k > Len(signals) THEN draft
    ELSE AnalyzeFrom(AnalyzeSignal(draft, signals[k], t), signals, t, k + 1)

\* lines 167-188 on a list of strings
Classify(signals, t) == AnalyzeFrom(NewIntelligence, signals, t, 1)

\* signal.lower() raises AttributeError on the first signal that is no string
ClassifyRaises(signals) == \E k \in 1..Len(signals) : ~IsStr(signals[k])

(***************************************************************************)
(* The provider directory and what the web holds about each provider.      *)
(***************************************************************************)
\* Python's None, as a column value
Null == <<"<null>">>
\* truthiness of a column value: `if p.get('npi')`
Truthy(v) == v # Null /\ v # <<>>
\* str(v)
Str(v) == IF v = Null THEN <<"N","o","n","e">> ELSE v

Row(id, npi, state) == [id |-> id, npi |-> npi, state |-> state]

\* the regions of the query's in_("state", [...])
AllowedStates == {"CA", "MA", "PA", "TX", "FL", "NY"}

NaN == <<"n","a","n">>

\* more eligible providers than one cycle takes, and than the pool holds
DirCap ==
    << Row(<<"1","1">>, <<"7","0","1">>, "CA"),
       Row(<<"1","2">>, <<"7","0","2">>, "NY"),
       Row(<<"1","3">>, <<"7","0","3">>, "TX"),
       Row(<<"1","4">>, <<"7","0","4">>, "FL"),
       Row(<<"1","5">>, <<"7","0","5">>, "MA"),
       Row(<<"1","6">>, <<"7","0","6">>, "PA") >>

\* rows the selector must leave out, and one whose search result is malformed
DirFilter ==
    << Row(<<"2","1">>, Null, "CA"),
       Row(<<"2","2">>, <<"7","2","2">>, "OH"),
       Row(<<"2","3">>, <<"7","2","3">>, "CA"),
       Row(<<"2","4">>, <<"7","2","4">>, "NY"),
       Row(<<"2","5">>, <<"7","2","5">>, "TX"),
       Row(<<"2","6">>, <<>>, "FL") >>

\* two rows with one registry id
DirDup ==
    << Row(<<"3","1">>, <<"7","3","1">>, "CA"),
       Row(<<"3","2">>, <<"7","3","1">>, "CA"),
       Row(<<"3","3">>, <<"7","3","3">>, "PA") >>

\* rows whose npi column holds the text 'nan', with long integer ids
DirNan ==
    << Row(<<"4","0","0","0","0","0","0","0","1">>, NaN, "MA"),
       Row(<<"4","0","0","0","0","0","0","0","2">>, NaN, "MA") >>

\* a record of an earlier run of the engine, for the provider "23"
PriorRecord ==
    [rpin_id |-> << <<"7","2","3">>, 0 >>, npi |-> <<"7","2","3">>,
     opportunity_score |-> 20,
     equipment_data |-> [t \in {equipment_signals[1]} |-> EquipmentEntry(0)],
     market_insights |-> <<>>]

\* the directories explored, each with the intelligence table it starts from
Scenarios ==
    { [directory |-> DirCap, intel |-> {}],
      [directory |-> DirFilter, intel |-> {PriorRecord}],
      [directory |-> DirDup, intel |-> {}],
      [directory |-> DirNan, intel |-> {}] }

\* the tasks of enrich_provider's gather, in task order
Sources == <<"duckduckgo", "reddit", "google">>
SourceSet == {"duckduckgo", "reddit", "google"}

\* the signals a search extracts for a provider when its request succeeds
Web(id, source) ==
    CASE id = <<"1","1">> /\ source = "duckduckgo" -> <<sIpl>>
      [] id = <<"1","2">> /\ source = "reddit" -> <<sBoth>>
      [] id = <<"1","3">> /\ source = "google" -> <<sMix>>
      [] id = <<"1","4">> /\ source = "duckduckgo" -> <<sMulti>>
      [] id = <<"1","5">> /\ source = "reddit" -> <<sSpa>>
      [] id = <<"1","6">> /\ source = "google" -> <<sIpl>>
      [] id = <<"2","4">> /\ source = "duckduckgo" -> <<NonStr>>
      [] id = <<"2","4">> /\ source = "reddit" -> <<sHire>>
      [] id = <<"2","5">> /\ source = "duckduckgo" -> <<sIpl>>
      [] id = <<"2","5">> /\ source = "reddit" -> <<sHire>>
      [] id = <<"2","5">> /\ source = "google" -> <<sGrow>>
      [] id = <<"3","1">> /\ source = "duckduckgo" -> <<sIpl>>
      [] id = <<"3","2">> /\ source = "duckduckgo" -> <<sIpl, sHire>>
      [] id = <<"3","3">> /\ source = "reddit" -> <<sSpa>>
      [] id[1] = "4" /\ source = "google" -> <<sBoth, sClose>>
      [] OTHER -> <<>>

(***************************************************************************)
(* get_providers_to_enrich, lines 113-132.                                 *)
(***************************************************************************)
Min(a, b) == IF a < b THEN a ELSE b

\* s[:n]
Take(s, n) == SubSeq(s, 1, Min(n, Len(s)))

InAllowedState(p) == p.state \in AllowedStates

\* a faulty query: `.limit(100)` is missing
QueryPool_NoLimit(dir) == SelectSeq(dir, InAllowedState)

\* lines 117-121: the directory query
QueryPool(dir) == Take(SelectSeq(dir, InAllowedState), PoolLimit)

\* lines 124-125
enriched_npis(table) == {r.npi : r \in {x \in table : Truthy(x.npi)}}

\* a faulty selector: `p.get('npi') and` is missing
get_providers_NoNpiCheck(dir, table) ==
    LET NotEnriched(p) == p.npi \notin enriched_npis(table)
    IN  Take(SelectSeq(QueryPool(dir), NotEnriched), CycleLimit)

\* a faulty selector: the enriched providers are not filtered out
get_providers_NoEnrichedFilter(dir, table) ==
    LET HasNpi(p) == Truthy(p.npi)
    IN  Take(SelectSeq(QueryPool(dir), HasNpi), CycleLimit)

\* a faulty selector: the slice [:50] is missing
get_providers_NoCap(dir, table) ==
    LET NotEnriched(p) == Truthy(p.npi) /\ p.npi \notin enriched_npis(table)
    IN  SelectSeq(QueryPool(dir), NotEnriched)

\* a faulty selector: the slice [:50] is taken before the filter
get_providers_CapBeforeFilter(dir, table) ==
    LET NotEnriched(p) == Truthy(p.npi) /\ p.npi \notin enriched_npis(table)
    IN  SelectSeq(Take(QueryPool(dir), CycleLimit), NotEnriched)

\* line 128
get_providers_to_enrich(dir, table) ==
    LET NotEnriched(p) == Truthy(p.npi) /\ p.npi \notin enriched_npis(table)
    IN  Take(SelectSeq(QueryPool(dir), NotEnriched), CycleLimit)

(***************************************************************************)
(* enrich_cycle, lines 97-109: the sub-batches.                            *)
(***************************************************************************)
\* a faulty slice: providers[i:i+batch_size+1]
SubBatch_OneTooMany(providers, off) ==
    {k \in 1..Len(providers) : off < k /\ k <= off + batch_size + 1}

\* providers[i:i+batch_size], as positions of providers (1-based)
SubBatch(providers, off) ==
    {k \in 1..Len(providers) : off < k /\ k <= off + batch_size}

\* a faulty range: range(0, len(providers), batch_size + 1)
NextOffset_SkipsOne(off) == off + batch_size + 1

\* range(0, len(providers), batch_size): the offset after off
NextOffset(off) == off + batch_size

(***************************************************************************)
(* enrich_provider, lines 151-164: the searches and their results.         *)
(***************************************************************************)
\* what a search returns: its signals on status 200, the empty list on a
\* non-200 status, a timeout or any exception (lines 222-224, 248-250, 275-277)
SearchResult(p, source, outcome) ==
    [source |-> source,
     signals |-> IF outcome = "ok" THEN Web(p.id, source) ELSE <<>>]

RECURSIVE Extend(_, _, _)
\* a faulty loop: it breaks at the first result without signals
Extend_StopsAtEmpty(found, results, k) ==
    IF k > Len(results) \/ results[k].signals = <<>> THEN found
    ELSE Extend(found \o results[k].signals, results, k + 1)

\* lines 161-164: signals_found, from the results in task order
Extend(found, results, k) ==
    IF k > Len(results) THEN found
    ELSE Extend(found \o results[k].signals, results, k + 1)

signals_found(p, src) ==
    Extend(<<>>, [k \in 1..Len(Sources) |-> SearchResult(p, Sources[k], src[Sources[k]])], 1)

(***************************************************************************)
(* save_intelligence, lines 279-331.                                       *)
(***************************************************************************)
\* lines 283-287
IdPart(p) ==
    IF Truthy(p.npi) /\ Str(p.npi) # NaN /\ Str(p.npi) # <<"N","o","n","e">>
    THEN Str(p.npi)
    ELSE Take(Str(p.id), IdPrefixLen)

\* line 288: the id and the time to the second
rpin_id(p, t) == <<IdPart(p), t>>

\* lines 291-306
IntelligenceRecord(p, draft, t) ==
    [rpin_id |-> rpin_id(p, t), npi |-> p.npi,
     opportunity_score |-> draft.opportunity_score,
     equipment_data |-> draft.equipment_data,
     market_insights |-> draft.market_insights]

HasKey(table, key) == \E r \in table : r.rpin_id = key

\* line 310, when the insert is accepted
TableInsert(table, rec) == table \cup {rec}

\* line 314, when the update is accepted: every row with that rpin_id
TableUpdate(table, rec) ==
    {r \in table : r.rpin_id # rec.rpin_id}
        \cup (IF HasKey(table, rec.rpin_id) THEN {rec} ELSE {})

\* lines 309-314: the table after the primary write step
AfterPrimary(table, rec, primary) ==
    CASE primary = "inserted" -> TableInsert(table, rec)
      [] primary = "updated" -> TableUpdate(table, rec)
      [] OTHER -> table

\* a faulty save: a failed insert of the BuyingSignal undoes the primary write
SavedTable_RollsBack(table, rec, primary, signal) ==
    IF signal = "failed" THEN table ELSE AfterPrimary(table, rec, primary)

\* the table when save_intelligence returns: nothing undoes the primary write
SavedTable(table, rec, primary, signal) == AfterPrimary(table, rec, primary)

\* line 317
IsHotLead(score) == score >= HotLeadScore

\* a faulty save: the BuyingSignal insert does not wait for the write step
SignalAttempted_WhateverTheWrite(primary, score) == IsHotLead(score)

\* lines 309-317: line 317 is reached when the write step did not raise
SignalAttempted(primary, score) == primary # "failed" /\ IsHotLead(score)

\* a faulty band: `> 50` for `>= 50`
signal_strength_Strict(score) == IF score > HighStrengthScore THEN "high" ELSE "medium"

\* line 321
signal_strength(score) == IF score >= HighStrengthScore THEN "high" ELSE "medium"

\* lines 318-324
BuyingSignal(p, draft, t) ==
    [provider_id |-> p.id,
     signal_type |-> IF DOMAIN draft.equipment_data # {} THEN "equipment_adoption"
                     ELSE "expansion",
     signal_strength |-> signal_strength(draft.opportunity_score),
     created_at |-> t]

\* a faulty filter: `>= 0` for `> 0`
WorthSaving_NonNegative(score) == score >= 0

\* line 191
WorthSaving(score) == score > 0

(***************************************************************************)
(* _build_provider_name, lines 333-348.                                    *)
(***************************************************************************)
DrPrefix == <<"D","r","."," ">>
UnknownProvider == <<"U","n","k","n","o","w","n"," ","P","r","o","v","i","d","e","r">>

\* a row with none of the name columns set
NoProvider ==
    [organization_name |-> Null, first_name |-> Null, last_name |-> Null,
     provider_name |-> Null]

\* a faulty precedence: the stored provider_name comes before the names
build_provider_name_StoredFirst(provider) ==
    IF Truthy(provider.organization_name) THEN provider.organization_name
    ELSE IF Truthy(provider.provider_name) THEN provider.provider_name
    ELSE IF Truthy(provider.first_name) /\ Truthy(provider.last_name)
    THEN DrPrefix \o provider.first_name \o <<" ">> \o provider.last_name
    ELSE IF Truthy(provider.last_name) THEN DrPrefix \o provider.last_name
    ELSE UnknownProvider

build_provider_name(provider) ==
    IF Truthy(provider.organization_name) THEN provider.organization_name
    ELSE LET first == provider.first_name
             last == provider.last_name
         IN  IF Truthy(first) /\ Truthy(last)
             THEN DrPrefix \o first \o <<" ">> \o last
             ELSE IF Truthy(last) THEN DrPrefix \o last
             ELSE IF Truthy(provider.provider_name) THEN provider.provider_name
             ELSE UnknownProvider

(***************************************************************************)
(* The state of one enrich_provider task.                                  *)
(***************************************************************************)
NewPipe ==
    [st |-> "new", starts |-> 0,
     src |-> [s \in SourceSet |-> "idle"],
     consumed |-> <<>>, score |-> 0,
     primary |-> "none", signal |-> "none", key |-> <<>>,
     counted |-> FALSE, t0 |-> 0, t1 |-> 0]

Ended(k) == pipe[k].st \in {"done", "failed"}

(***************************************************************************)
(* The initial state: the engine as __init__ leaves it, in front of one of *)
(* the directories.                                                        *)
(***************************************************************************)
NameIdle == nprovider = NoProvider /\ display_name = Null
LoopIdle == csignals = <<>> /\ cpos = 0 /\ cdraft = NewIntelligence /\ NameIdle

Init ==
    /\ \E sc \in Scenarios : directory = sc.directory /\ intel = sc.intel
    /\ buying = <<>>
    /\ cycle_count = 0
    /\ providers_enriched = 0
    /\ hot_leads_found = 0
    /\ pc = "idle"
    /\ selected = <<>>
    /\ i = 0
    /\ pipe = <<>>
    /\ now = 1
    /\ ticks = 0
    /\ faults = 0
    /\ intelAtCycleStart = intel
    /\ enrichedAtCycleStart = 0
    /\ LoopIdle

(***************************************************************************)
(* start, lines 71-75: the next turn of `while True`.  Every turn but the  *)
(* first follows asyncio.sleep(300).                                       *)
(***************************************************************************)
BeginCycle ==
    /\ pc = "idle"
    /\ cycle_count < MaxCycles
    /\ cycle_count' = cycle_count + 1
    /\ now' = IF cycle_count > 0 THEN now + CycleSleepSeconds ELSE now
    /\ pc' = "selecting"
    /\ intelAtCycleStart' = intel
    /\ enrichedAtCycleStart' = providers_enriched
    /\ UNCHANGED <<directory, intel, buying, providers_enriched, hot_leads_found,
                   selected, i, pipe, ticks, faults>>
    /\ UNCHANGED loopVars

\* the tasks of one sub-batch, as gather creates them (line 101-102)
Launch(p, providers, off) ==
    [k \in DOMAIN p |->
        IF k \in SubBatch(providers, off) THEN [p[k] EXCEPT !.st = "new"] ELSE p[k]]

\* a faulty orchestrator: an empty selection ends the loop of start()
EnterCycle_EmptyStops(providers) ==
    /\ selected' = providers
    /\ i' = 0
    /\ IF providers = <<>>
       THEN pc' = "stopped" /\ pipe' = <<>>
       ELSE /\ pc' = "enriching"
            /\ pipe' = Launch([k \in 1..Len(providers) |->
                                  [NewPipe EXCEPT !.st = "unborn"]], providers, 0)

\* enrich_cycle, lines 89-102, given what get_providers_to_enrich returned
EnterCycle(providers) ==
    /\ selected' = providers
    /\ i' = 0
    /\ IF providers = <<>>
       THEN pc' = "idle" /\ pipe' = <<>>
       ELSE /\ pc' = "enriching"
            /\ pipe' = Launch([k \in 1..Len(providers) |->
                                  [NewPipe EXCEPT !.st = "unborn"]], providers, 0)

\* get_providers_to_enrich returns its list
SelectOk ==
    /\ pc = "selecting"
    /\ EnterCycle(get_providers_to_enrich(directory, intel))
    /\ UNCHANGED <<directory, intel, buying, cycle_count, providers_enriched,
                   hot_leads_found, now, ticks, faults, intelAtCycleStart,
                   enrichedAtCycleStart>>
    /\ UNCHANGED loopVars

\* a faulty selector: the exception of a query leaves it and ends start()
SelectFails_Raises ==
    /\ pc = "selecting"
    /\ faults < MaxFaults
    /\ faults' = faults + 1
    /\ pc' = "stopped"
    /\ UNCHANGED <<directory, intel, buying, cycle_count, providers_enriched,
                   hot_leads_found, selected, i, pipe, now, ticks,
                   intelAtCycleStart, enrichedAtCycleStart>>
    /\ UNCHANGED loopVars

\* a query of get_providers_to_enrich raises: lines 130-132 return []
SelectFails ==
    /\ pc = "selecting"
    /\ faults < MaxFaults
    /\ faults' = faults + 1
    /\ EnterCycle(<<>>)
    /\ UNCHANGED <<directory, intel, buying, cycle_count, providers_enriched,
                   hot_leads_found, now, ticks, intelAtCycleStart,
                   enrichedAtCycleStart>>
    /\ UNCHANGED loopVars

(***************************************************************************)
(* enrich_provider up to its gather, lines 136-158.  Tasks take their      *)
(* first step in the order gather created them.                            *)
(***************************************************************************)
StartPipeline(k) ==
    /\ pc = "enriching"
    /\ k \in SubBatch(selected, i)
    /\ pipe[k].st = "new"
    /\ \A j \in SubBatch(selected, i) : j < k => pipe[j].st # "new"
    /\ pipe' = [pipe EXCEPT ![k].st = "fetching",
                            ![k].starts = @ + 1,
                            ![k].src = [s \in SourceSet |-> "pending"],
                            ![k].t0 = now]
    /\ UNCHANGED <<directory, intel, buying, cycle_count, providers_enriched,
                   hot_leads_found, pc, selected, i, now, ticks, faults,
                   intelAtCycleStart, enrichedAtCycleStart>>
    /\ UNCHANGED loopVars

\* a search gets status 200 and returns what it extracted
SearchReturns(k, s) ==
    /\ pc = "enriching"
    /\ k \in DOMAIN pipe
    /\ pipe[k].st = "fetching"
    /\ pipe[k].src[s] = "pending"
    /\ pipe' = [pipe EXCEPT ![k].src[s] = "ok"]
    /\ UNCHANGED <<directory, intel, buying, cycle_count, providers_enriched,
                   hot_leads_found, pc, selected, i, now, ticks, faults,
                   intelAtCycleStart, enrichedAtCycleStart>>
    /\ UNCHANGED loopVars

\* a search times out, gets another status or raises inside its try
SearchFails(k, s) ==
    /\ pc = "enriching"
    /\ k \in DOMAIN pipe
    /\ pipe[k].st = "fetching"
    /\ pipe[k].src[s] = "pending"
    /\ faults < MaxFaults
    /\ faults' = faults + 1
    /\ pipe' = [pipe EXCEPT ![k].src[s] = "fail"]
    /\ UNCHANGED <<directory, intel, buying, cycle_count, providers_enriched,
                   hot_leads_found, pc, selected, i, now, ticks,
                   intelAtCycleStart, enrichedAtCycleStart>>
    /\ UNCHANGED loopVars

\* a second passes while the searches are awaited
Tick ==
    /\ pc = "enriching"
    /\ \E k \in DOMAIN pipe : pipe[k].st = "fetching"
    /\ ticks < MaxTicks
    /\ ticks' = ticks + 1
    /\ now' = now + 1
    /\ UNCHANGED <<directory, intel, buying, cycle_count, providers_enriched,
                   hot_leads_found, pc, selected, i, pipe, faults,
                   intelAtCycleStart, enrichedAtCycleStart>>
    /\ UNCHANGED loopVars

AllReturned(k) == \A s \in SourceSet : pipe[k].src[s] \in {"ok", "fail"}

(***************************************************************************)
(* enrich_provider after its gather, lines 160-200.  Nothing in it awaits  *)
(* the event loop (the store client is synchronous), so it is one step.    *)
(***************************************************************************)
\* whether a save with these outcomes has met a failure of the store
SaveFaults(table, rec, primary, signal) ==
    \/ primary # "inserted" /\ ~HasKey(table, rec.rpin_id)
    \/ primary = "failed"
    \/ signal = "failed"

\* the count of faulty steps after a step that did or did not meet a failure
Spent(failing) == IF failing THEN faults + 1 ELSE faults

\* signal.lower() raised: the handler of lines 199-200 ends the task
FinishRaised(k, src, found, failing) ==
    /\ pipe' = [pipe EXCEPT ![k].st = "failed",
                            ![k].src = src,
                            ![k].consumed = found,
                            ![k].t1 = now]
    /\ Spent(failing) <= MaxFaults
    /\ faults' = Spent(failing)
    /\ UNCHANGED <<intel, buying, providers_enriched, hot_leads_found>>

\* line 191 is false: nothing is saved or counted
FinishDiscarded(k, src, found, draft, failing) ==
    /\ pipe' = [pipe EXCEPT ![k].st = "done",
                            ![k].src = src,
                            ![k].consumed = found,
                            ![k].score = draft.opportunity_score,
                            ![k].t1 = now]
    /\ Spent(failing) <= MaxFaults
    /\ faults' = Spent(failing)
    /\ UNCHANGED <<intel, buying, providers_enriched, hot_leads_found>>

\* lines 192-197: save_intelligence and the counters.  primary is how the
\* write step of lines 309-314 ended, signal how the insert of line 326 did.
FinishSaved(k, src, found, draft, failing, primary, signal) ==
    LET p == selected[k]
        score == draft.opportunity_score
        rec == IntelligenceRecord(p, draft, now)
    IN  \* an insert of a key the table holds is rejected
        /\ primary = "inserted" => ~HasKey(intel, rec.rpin_id)
        \* line 317 is reached when the write step did not raise
        /\ signal # "none" <=> SignalAttempted(primary, score)
        /\ Spent(failing \/ SaveFaults(intel, rec, primary, signal)) <= MaxFaults
        /\ faults' = Spent(failing \/ SaveFaults(intel, rec, primary, signal))
        /\ intel' = SavedTable(intel, rec, primary, signal)
        /\ buying' = IF signal = "ok"
                     THEN Append(buying, BuyingSignal(p, draft, now))
                     ELSE buying
        /\ providers_enriched' = providers_enriched + 1
        /\ hot_leads_found' = IF score >= HotLeadScore
                              THEN hot_leads_found + 1 ELSE hot_leads_found
        /\ pipe' = [pipe EXCEPT ![k].st = "done",
                                ![k].src = src,
                                ![k].consumed = found,
                                ![k].score = score,
                                ![k].primary = primary,
                                ![k].signal = signal,
                                ![k].key = rec.rpin_id,
                                ![k].counted = TRUE,
                                ![k].t1 = now]

\* lines 160-200, given how each search ended; kept is what the task's
\* entry in pipe remembers of the searches
Finish(k, src, kept, failing) ==
    \E found \in {signals_found(selected[k], src)} :
        IF ClassifyRaises(found)
        THEN FinishRaised(k, kept, found, failing)
        ELSE \E draft \in {Classify(found, now)} :
                IF ~WorthSaving(draft.opportunity_score)
                THEN FinishDiscarded(k, kept, found, draft, failing)
                ELSE \E primary \in {"inserted", "updated", "failed"},
                        signal \in {"none", "ok", "failed"} :
                         FinishSaved(k, kept, found, draft, failing, primary, signal)

\* the task resumes once its three searches have returned
FinishPipeline(k) ==
    /\ pc = "enriching"
    /\ k \in DOMAIN pipe
    /\ pipe[k].st = "fetching"
    /\ AllReturned(k)
    /\ Finish(k, pipe[k].src, pipe[k].src, FALSE)
    /\ UNCHANGED <<directory, cycle_count, pc, selected, i, now, ticks,
                   intelAtCycleStart, enrichedAtCycleStart>>
    /\ UNCHANGED loopVars

SearchOutcomes == [SourceSet -> {"ok", "fail"}]
Failures(src) == \E s \in SourceSet : src[s] = "fail"

\* the same, with the returns of the three searches and the resumption of
\* the task taken as one step: the searches touch nothing but the task's own
\* results, so this is how the rest of the engine sees them
EnrichProvider(k) ==
    /\ pc = "enriching"
    /\ k \in DOMAIN pipe
    /\ pipe[k].st = "fetching"
    /\ \A s \in SourceSet : pipe[k].src[s] = "pending"
    /\ \E src \in SearchOutcomes :
          /\ Spent(Failures(src)) <= MaxFaults
          /\ Finish(k, src, [s \in SourceSet |-> "returned"], Failures(src))
    /\ UNCHANGED <<directory, cycle_count, pc, selected, i, now, ticks,
                   intelAtCycleStart, enrichedAtCycleStart>>
    /\ UNCHANGED loopVars

(***************************************************************************)
(* enrich_cycle, lines 102-111: gather returns, then asyncio.sleep(2).     *)
(***************************************************************************)
EndSubBatch ==
    /\ pc = "enriching"
    /\ \A k \in SubBatch(selected, i) : Ended(k)
    /\ pc' = "pausing"
    /\ UNCHANGED <<directory, intel, buying, cycle_count, providers_enriched,
                   hot_leads_found, selected, i, pipe, now, ticks, faults,
                   intelAtCycleStart, enrichedAtCycleStart>>
    /\ UNCHANGED loopVars

\* the pause is over and another sub-batch follows
NextSubBatch ==
    /\ pc = "pausing"
    /\ NextOffset(i) < Len(selected)
    /\ now' = now + PauseSeconds
    /\ i' = NextOffset(i)
    /\ pipe' = Launch(pipe, selected, NextOffset(i))
    /\ pc' = "enriching"
    /\ UNCHANGED <<directory, intel, buying, cycle_count, providers_enriched,
                   hot_leads_found, selected, ticks, faults,
                   intelAtCycleStart, enrichedAtCycleStart>>
    /\ UNCHANGED loopVars

\* the pause is over and the range is exhausted: the cycle is complete
EndCycle ==
    /\ pc = "pausing"
    /\ NextOffset(i) >= Len(selected)
    /\ now' = now + PauseSeconds
    /\ pc' = "idle"
    /\ UNCHANGED <<directory, intel, buying, cycle_count, providers_enriched,
                   hot_leads_found, selected, i, pipe, ticks, faults,
                   intelAtCycleStart, enrichedAtCycleStart>>
    /\ UNCHANGED loopVars

Next ==
    \/ BeginCycle
    \/ SelectOk
    \/ SelectFails
    \/ \E k \in 1..CycleLimit : StartPipeline(k)
    \/ Tick
    \/ \E k \in 1..CycleLimit : EnrichProvider(k)
    \/ EndSubBatch
    \/ NextSubBatch
    \/ EndCycle

Spec == Init /\ [][Next]_vars

(***************************************************************************)
(* The engine on an event loop that runs every task that is ready, with    *)
(* store and network calls that return or fail in finite time and sleeps   *)
(* that end: a step other than the passing of time is eventually taken     *)
(* while one is possible.                                                  *)
(***************************************************************************)
Step ==
    \/ BeginCycle
    \/ SelectOk
    \/ SelectFails
    \/ \E k \in 1..CycleLimit : StartPipeline(k)
    \/ \E k \in 1..CycleLimit : EnrichProvider(k)
    \/ EndSubBatch
    \/ NextSubBatch
    \/ EndCycle

SpecLive == Init /\ [][Next]_vars /\ WF_vars(Step)

(***************************************************************************)
(* The first sub-batch of the first cycle with every search as a task of   *)
(* its own: the searches of the tasks in flight return in any order.       *)
(***************************************************************************)
NextGather ==
    \/ BeginCycle /\ cycle_count = 0
    \/ SelectOk
    \/ \E k \in 1..batch_size : StartPipeline(k)
    \/ \E k \in 1..batch_size, s \in SourceSet : SearchReturns(k, s)
    \/ \E k \in 1..batch_size, s \in SourceSet : SearchFails(k, s)
    \/ \E k \in 1..batch_size : FinishPipeline(k)

SpecGather == Init /\ [][NextGather]_vars

(***************************************************************************)
(* The classification loop of enrich_provider checked alone: the engine is *)
(* at rest, signals_found is any list of up to MaxSignals signal texts,    *)
(* and each step is one turn of `for signal in signals_found`.             *)
(***************************************************************************)
RECURSIVE SeqsUpTo(_, _)
SeqsUpTo(S, n) ==
    IF n = 0 THEN {<<>>}
    ELSE LET shorter == SeqsUpTo(S, n - 1)
         IN  shorter \cup {Append(q, x) : q \in {r \in shorter : Len(r) = n - 1}, x \in S}

InitLoop ==
    /\ directory = <<>>
    /\ intel = {}
    /\ buying = <<>>
    /\ cycle_count = 0
    /\ providers_enriched = 0
    /\ hot_leads_found = 0
    /\ pc = "idle"
    /\ selected = <<>>
    /\ i = 0
    /\ pipe = <<>>
    /\ now = 1
    /\ ticks = 0
    /\ faults = 0
    /\ intelAtCycleStart = {}
    /\ enrichedAtCycleStart = 0
    /\ csignals \in SeqsUpTo(SignalTexts, MaxSignals)
    /\ cpos = 0
    /\ cdraft = NewIntelligence
    /\ NameIdle

AnalyzeNext ==
    /\ cpos < Len(csignals)
    /\ cdraft' = AnalyzeSignal(cdraft, csignals[cpos + 1], now)
    /\ cpos' = cpos + 1
    /\ UNCHANGED csignals
    /\ UNCHANGED nameVars
    /\ UNCHANGED engineVars

NextLoop == AnalyzeNext

SpecLoop == InitLoop /\ [][NextLoop]_vars

(***************************************************************************)
(* _build_provider_name checked alone: the engine is at rest, the row has  *)
(* each name column absent (None), empty or set, and the one step is the   *)
(* call.                                                                   *)
(***************************************************************************)
OrganizationNames == {Null, <<>>, <<"A","c","m","e"," ","S","p","a">>, <<" ">>}
FirstNames == {Null, <<>>, <<"J","a","n","e">>}
LastNames == {Null, <<>>, <<"D","o","e">>, <<"O","'","N","e","i","l">>}
ProviderNames == {Null, <<>>, <<"X","Y","Z">>}

InitName ==
    /\ directory = <<>>
    /\ intel = {}
    /\ buying = <<>>
    /\ cycle_count = 0
    /\ providers_enriched = 0
    /\ hot_leads_found = 0
    /\ pc = "idle"
    /\ selected = <<>>
    /\ i = 0
    /\ pipe = <<>>
    /\ now = 1
    /\ ticks = 0
    /\ faults = 0
    /\ intelAtCycleStart = {}
    /\ enrichedAtCycleStart = 0
    /\ csignals = <<>>
    /\ cpos = 0
    /\ cdraft = NewIntelligence
    /\ nprovider \in [organization_name : OrganizationNames, first_name : FirstNames,
                      last_name : LastNames, provider_name : ProviderNames]
    /\ display_name = Null

BuildName ==
    /\ display_name = Null
    /\ display_name' = build_provider_name(nprovider)
    /\ UNCHANGED <<nprovider, csignals, cpos, cdraft>>
    /\ UNCHANGED engineVars

NextName == BuildName

SpecName == InitName /\ [][NextName]_vars

(***************************************************************************)
(* Properties.                                                             *)
(***************************************************************************)
\* the (signal, term) pairs of the first n signals that match a vocabulary
MatchPairs(signals, n, terms) ==
    {m \in (1..n) \X (1..Len(terms)) : Contains(terms[m[2]], signals[m[1]])}

SignedSum(signals, n) ==
      EquipmentPoints * Cardinality(MatchPairs(signals, n, equipment_signals))
    + ExpansionPoints * Cardinality(MatchPairs(signals, n, expansion_signals))
    - DistressPoints * Cardinality(MatchPairs(signals, n, distress_signals))

\* C3: after every turn of the classification loop the opportunity score is
\* 20 x the equipment matches + 15 x the expansion matches - 30 x the
\* distress matches of the signals analysed so far, each (signal, term)
\* match counted, with no clamp.
C3_ScoreIsSignedSum == cdraft.opportunity_score = SignedSum(csignals, cpos)

\* C3 witness: a finished loop with a negative score, an equipment match and
\* a term that two signals matched.
C3_Witness ==
    /\ cpos = Len(csignals)
    /\ cdraft.opportunity_score < 0
    /\ MatchPairs(csignals, cpos, equipment_signals) # {}
    /\ \E a, b \in MatchPairs(csignals, cpos, distress_signals) :
          a[1] # b[1] /\ a[2] = b[2]

\* the registry ids of the records of a table
NpisOf(table) == {r.npi : r \in table}

\* get_providers_to_enrich has just returned and no task has run yet
JustSelected ==
    /\ pc = "enriching"
    /\ i = 0
    /\ \A k \in DOMAIN pipe : pipe[k].st \in {"new", "unborn"}

\* C1: every Target get_providers_to_enrich returns has a non-empty registry
\* id, and no record of the intelligence table carries that registry id when
\* the selection is made; this holds for the selection of every cycle.
C1_SelectedAreUnenriched ==
    JustSelected =>
        \A k \in 1..Len(selected) :
            /\ selected[k].npi # Null
            /\ selected[k].npi # <<>>
            /\ selected[k].npi \notin NpisOf(intel)

\* C1 witness: the selection of the second cycle is not empty, and leaves
\* out a provider that the first cycle persisted and one without registry id.
C1_Witness ==
    /\ JustSelected
    /\ cycle_count = 2
    /\ \E n \in 1..Len(directory) :
          /\ directory[n].state \in AllowedStates
          /\ \E r \in intel : r.npi = directory[n].npi /\ r.rpin_id[2] > 0
          /\ \A k \in 1..Len(selected) : selected[k] # directory[n]
    /\ \E n \in 1..Len(directory) :
          /\ directory[n].state \in AllowedStates
          /\ directory[n].npi = Null

PassSignals(k) ==
    {n \in 1..Len(buying) :
        /\ buying[n].provider_id = selected[k].id
        /\ buying[n].created_at = pipe[k].t1}

\* C4: a write is attempted for a Target only when its score is > 0; a pass
\* that ends with a score <= 0 leaves both tables and both counters as they
\* were; every record of the intelligence table has a score > 0.
C4_OnlyPositiveScoresAreWritten ==
    /\ [](\A r \in intel : r.opportunity_score > 0)
    /\ [](\A k \in DOMAIN pipe :
            (pipe[k].primary # "none" \/ pipe[k].signal # "none" \/ pipe[k].counted)
                => pipe[k].score > 0)
    /\ [][\A k \in DOMAIN pipe :
            (/\ k \in DOMAIN pipe'
             /\ pipe[k].st = "fetching"
             /\ pipe'[k].st = "done"
             /\ pipe'[k].score <= 0)
                => UNCHANGED <<intel, buying, providers_enriched, hot_leads_found>>]_vars

\* C4 witness: a pass has ended with one distress and one expansion match,
\* score -15, nothing written and nothing counted.
C4_Witness ==
    \E k \in DOMAIN pipe :
        /\ pipe[k].st = "done"
        /\ pipe[k].score = -15
        /\ Cardinality(MatchPairs(pipe[k].consumed, Len(pipe[k].consumed),
                                  distress_signals)) = 1
        /\ Cardinality(MatchPairs(pipe[k].consumed, Len(pipe[k].consumed),
                                  expansion_signals)) = 1
        /\ pipe[k].primary = "none"
        /\ ~pipe[k].counted
        /\ intel = intelAtCycleStart

C6_SignalFailureKeepsRecord ==
    [][\A k \in DOMAIN pipe :
          (/\ k \in DOMAIN pipe'
           /\ pipe[k].st = "fetching"
           /\ pipe'[k].primary = "inserted"
           /\ pipe'[k].signal = "failed")
              => /\ pipe'[k].st = "done"
                 /\ pipe'[k].counted
                 /\ intel \subseteq intel'
                 /\ buying' = buying
                 /\ \E r \in intel' \ intel :
                       /\ r.rpin_id = pipe'[k].key
                       /\ r.npi = selected[k].npi
                       /\ r.opportunity_score = pipe'[k].score]_vars

\* C6 witness: a pass whose record was inserted and whose BuyingSignal
\* insert failed; the record is in the table.
C6_Witness ==
    \E k \in DOMAIN pipe :
        /\ pipe[k].primary = "inserted"
        /\ pipe[k].signal = "failed"
        /\ pipe[k].score >= 30
        /\ \E r \in intel : r.rpin_id = pipe[k].key /\ r.opportunity_score = pipe[k].score
        /\ PassSignals(k) = {}

\* the signals a search of task k delivered
Delivered(k, s) ==
    IF pipe[k].src[s] = "ok" THEN Web(selected[k].id, s) ELSE <<>>

\* C7: whichever searches of a Target fail, the classification consumes
\* every signal of every search that returned, the score is that of these
\* signals, and the task ends: with "failed" only when a signal is no text.
C7_FailedSourceLeavesSiblings ==
    \A k \in DOMAIN pipe :
        Ended(k) =>
            /\ pipe[k].consumed = Delivered(k, "duckduckgo") \o Delivered(k, "reddit")
                                      \o Delivered(k, "google")
            /\ pipe[k].st = "failed" <=>
                   \E n \in 1..Len(pipe[k].consumed) : pipe[k].consumed[n] = NonStr
            /\ pipe[k].st = "done" =>
                   pipe[k].score = SignedSum(pipe[k].consumed, Len(pipe[k].consumed))

\* C7 witness: a task has ended normally after exactly one of its searches
\* failed, and the signals of the two others made its score.
C7_Witness ==
    \E k \in DOMAIN pipe :
        /\ pipe[k].st = "done"
        /\ Cardinality({s \in SourceSet : pipe[k].src[s] = "fail"}) = 1
        /\ \A s \in SourceSet : pipe[k].src[s] = "ok" => Web(selected[k].id, s) # <<>>
        /\ Len(pipe[k].consumed) = 2
        /\ pipe[k].score = 30

\* C8: in every cycle each selected Target has its task started exactly
\* once and ended when the cycle is complete; a task in flight belongs to
\* the sub-batch being gathered, and the cycle always has a next step to
\* take, whatever became of the other tasks.
C8_EveryTargetRunsOnce ==
    /\ \A k \in DOMAIN pipe :
          /\ pipe[k].starts <= 1
          /\ pipe[k].starts = 0 <=> pipe[k].st \in {"unborn", "new"}
          /\ pipe[k].st = "fetching" => pc = "enriching" /\ k \in SubBatch(selected, i)
    /\ (pc = "idle" /\ cycle_count > 0) =>
          /\ DOMAIN pipe = 1..Len(selected)
          /\ \A k \in 1..Len(selected) : pipe[k].starts = 1 /\ Ended(k)
    /\ pc = "enriching" =>
          \/ \E k \in DOMAIN pipe : pipe[k].st = "fetching"
          \/ ENABLED (\E k \in 1..CycleLimit : StartPipeline(k))
          \/ ENABLED EndSubBatch
    /\ pc = "pausing" => ENABLED (NextSubBatch \/ EndCycle)

\* C8 witness: a cycle is complete in which one task raised, its sibling
\* was enriched and persisted, and every task was started once.
C8_Witness ==
    /\ pc = "idle"
    /\ cycle_count > 0
    /\ \E k, j \in DOMAIN pipe :
          /\ pipe[k].st = "failed"
          /\ k < j
          /\ pipe[j].st = "done"
          /\ pipe[j].primary = "inserted"
          /\ pipe[k].t1 <= pipe[j].t1
          /\ \E r \in intel : r.rpin_id = pipe[j].key /\ r.npi = selected[j].npi

InFlight == {k \in DOMAIN pipe : pipe[k].st \in {"new", "fetching"}}
Group(k) == (k - 1) \div batch_size

\* C9: the tasks run in consecutive sub-batches of at most batch_size in
\* selection order: the tasks in flight belong to one sub-batch, and a task
\* of a later sub-batch is created only when every task of the earlier ones
\* has ended, and starts at least the pause after they ended.
C9_SubBatchesInTurn ==
    /\ Cardinality(InFlight) <= batch_size
    /\ \A k, j \in InFlight : Group(k) = Group(j)
    /\ \A k, j \in DOMAIN pipe :
          (Group(j) < Group(k) /\ pipe[k].st # "unborn") =>
              /\ Ended(j)
              /\ pipe[k].starts > 0 => pipe[k].t0 >= pipe[j].t1 + PauseSeconds

\* C9 witness: a task of the second sub-batch is in flight after a full
\* first sub-batch has ended.
C9_Witness ==
    /\ pc = "enriching"
    /\ i = batch_size
    /\ \E k \in DOMAIN pipe : Group(k) = 1 /\ pipe[k].st = "fetching"
    /\ Cardinality({j \in DOMAIN pipe : Group(j) = 0 /\ Ended(j)}) = batch_size

\* C10 as stated: within a cycle the writes of two distinct Targets use
\* distinct record ids.
C10_DistinctTargetsDistinctIds ==
    \A k, j \in DOMAIN pipe :
        (/\ k # j
         /\ selected[k].id # selected[j].id
         /\ pipe[k].primary # "none"
         /\ pipe[j].primary # "none")
            => pipe[k].key # pipe[j].key

\* the place of a row in the directory (the rows of a directory are distinct)
RowPos(row) == CHOOSE n \in 1..Len(directory) : directory[n] = row

\* row n is one of the first PoolLimit rows of an allow-listed region
InPool(n) ==
    /\ directory[n].state \in AllowedStates
    /\ Cardinality({m \in 1..n : directory[m].state \in AllowedStates}) <= PoolLimit

\* C11: a selection holds at most CycleLimit Targets, each of them a row of
\* the directory whose region is allow-listed and which is among the first
\* PoolLimit such rows, and they stand in the order of the directory.
C11_SelectionWithinPoolAndCap ==
    /\ Len(selected) <= CycleLimit
    /\ \A k \in 1..Len(selected) :
          \E n \in 1..Len(directory) : directory[n] = selected[k] /\ InPool(n)
    /\ \A k, j \in 1..Len(selected) :
          k < j => RowPos(selected[k]) < RowPos(selected[j])

\* C11 witness: a selection has just been made that leaves out a row with a
\* registry id and no record because its region is not allow-listed.
C11_Witness ==
    /\ JustSelected
    /\ Len(selected) > 1
    /\ \E n \in 1..Len(directory) :
          /\ directory[n].state \notin AllowedStates
          /\ Truthy(directory[n].npi)
          /\ directory[n].npi \notin NpisOf(intel)
          /\ \A k \in 1..Len(selected) : selected[k] # directory[n]
          /\ \E k \in 1..Len(selected) : RowPos(selected[k]) > n

\* C12: when a read of get_providers_to_enrich fails the selection is empty:
\* the cycle creates no task, writes nothing, leaves the counters as they
\* were and ends, and the orchestrator can begin its next cycle.
C12_FailedSelectionEndsCycle ==
    /\ [][(pc = "selecting" /\ faults' # faults) =>
             /\ selected' = <<>>
             /\ pipe' = <<>>
             /\ pc' = "idle"
             /\ UNCHANGED <<intel, buying, providers_enriched, hot_leads_found,
                            cycle_count>>]_vars
    /\ []((pc = "idle" /\ selected = <<>> /\ cycle_count < MaxCycles) =>
             ENABLED BeginCycle)

\* C12 witness: the selection of the first cycle failed, nothing was written
\* or counted, and the second cycle has made a full selection.
C12_Witness ==
    /\ cycle_count = 2
    /\ JustSelected
    /\ faults = 1
    /\ intel = {}
    /\ buying = <<>>
    /\ providers_enriched = 0
    /\ hot_leads_found = 0
    /\ Len(selected) = CycleLimit

\* the tasks of the running cycle whose primary write step returned
Written == {k \in DOMAIN pipe : pipe[k].primary \in {"inserted", "updated"}}

\* C13 as stated: in a single cycle the counters count the Targets whose
\* write step returned, and not a Target whose insert and fallback update
\* both failed.
C13_FailedWriteIsNotCounted ==
    (cycle_count = 1 /\ pc # "selecting") =>
        /\ providers_enriched = Cardinality(Written)
        /\ hot_leads_found = Cardinality({k \in Written : pipe[k].score >= 30})

\* C14: start() goes round idle -> selecting -> enriching -> idle and is
\* never anywhere else; cycle_count grows by one exactly when a selection
\* begins; and whatever the cycles meet, every one of them ends and is
\* followed by the next selection, so that the MaxCycles-th cycle is
\* eventually complete.
C14_OrchestratorKeepsCycling ==
    /\ [](pc \in {"idle", "selecting", "enriching", "pausing"})
    /\ [][/\ pc' # pc =>
               \/ pc = "idle" /\ pc' = "selecting"
               \/ pc = "selecting" /\ pc' \in {"enriching", "idle"}
               \/ pc = "enriching" /\ pc' = "pausing"
               \/ pc = "pausing" /\ pc' \in {"enriching", "idle"}
          /\ IF pc = "idle" /\ pc' = "selecting"
             THEN cycle_count' = cycle_count + 1
             ELSE cycle_count' = cycle_count]_vars
    /\ <>(cycle_count = MaxCycles /\ pc = "idle")

\* C14 witness: the selection of a further cycle is under way after a cycle
\* in which a task raised.
C14_Witness ==
    /\ cycle_count = MaxCycles
    /\ pc = "selecting"
    /\ \E k \in DOMAIN pipe : pipe[k].st = "failed"
    /\ \E k \in DOMAIN pipe : pipe[k].st = "done" /\ pipe[k].counted

\* what the claim compares of a classification result
Summary(draft) ==
    [score |-> draft.opportunity_score,
     equipment |-> DOMAIN draft.equipment_data,
     expansion |-> "expansion_signal" \in DOMAIN draft.market_insights,
     distress |-> "distress_signal" \in DOMAIN draft.market_insights,
     persisted |-> draft.opportunity_score > 0,
     hot |-> draft.opportunity_score >= 30]

\* the orders in which n signals can stand
Orders(n) == {f \in [1..n -> 1..n] : \A a, b \in 1..n : a # b => f[a] # f[b]}
Permuted(signals, f) == [k \in 1..Len(signals) |-> signals[f[k]]]

\* C15: the result of the finished classification loop (score, equipment
\* keys, expansion and distress flags, persist and hot-lead decisions) is
\* that of the classification of every permutation of the same signals.
C15_ResultIsOrderIndependent ==
    cpos = Len(csignals) =>
        \A f \in Orders(Len(csignals)) :
            Summary(Classify(Permuted(csignals, f), now)) = Summary(cdraft)

\* C15 witness: a finished loop over three different signals that set both
\* flags and an equipment key, with a score > 0.
C15_Witness ==
    /\ cpos = Len(csignals)
    /\ Len(csignals) = 3
    /\ Cardinality(Range(csignals)) = 3
    /\ Summary(cdraft).expansion
    /\ Summary(cdraft).distress
    /\ Summary(cdraft).equipment # {}
    /\ Summary(cdraft).persisted

\* the equipment terms that match one of the first n signals
MatchedEquipment(signals, n) ==
    {equipment_signals[m[2]] : m \in MatchPairs(signals, n, equipment_signals)}

\* C16: the equipment map holds an entry, detected and from "web_search",
\* for exactly the equipment terms that matched a signal; one equipment
\* match and no other match give score 20 and one entry; the entries are as
\* many as the matched terms, however often a term matched.
C16_EquipmentMapHoldsMatchedTerms ==
    /\ DOMAIN cdraft.equipment_data = MatchedEquipment(csignals, cpos)
    /\ \A term \in DOMAIN cdraft.equipment_data :
          /\ cdraft.equipment_data[term].detected = TRUE
          /\ cdraft.equipment_data[term].source = "web_search"
    /\ (/\ Cardinality(MatchPairs(csignals, cpos, equipment_signals)) = 1
        /\ MatchPairs(csignals, cpos, expansion_signals) = {}
        /\ MatchPairs(csignals, cpos, distress_signals) = {})
          => /\ cdraft.opportunity_score = 20
             /\ Cardinality(DOMAIN cdraft.equipment_data) = 1

\* C16 witness: a finished loop in which one equipment term matched two
\* signals: one entry, and a score of 40 or more.
C16_Witness ==
    /\ cpos = Len(csignals)
    /\ Cardinality(DOMAIN cdraft.equipment_data) = 1
    /\ \E a, b \in MatchPairs(csignals, cpos, equipment_signals) :
          a[1] # b[1] /\ a[2] = b[2]
    /\ cdraft.opportunity_score >= 40

\* a name column that is neither None nor empty
Present(v) == v # Null /\ v # <<>>

\* C17: the name _build_provider_name returns is never empty and follows
\* the precedence: the organization name if present; else "Dr. <first>
\* <last>" if both are present; else "Dr. <last>" if the last name is
\* present; else the stored provider_name if present; else "Unknown
\* Provider".
C17_DisplayNamePrecedence ==
    display_name # Null =>
        LET org == nprovider.organization_name
            first == nprovider.first_name
            last == nprovider.last_name
            stored == nprovider.provider_name
        IN  /\ display_name # <<>>
            /\ Present(org) => display_name = org
            /\ (~Present(org) /\ Present(first) /\ Present(last)) =>
                  display_name = <<"D","r","."," ">> \o first \o <<" ">> \o last
            /\ (~Present(org) /\ ~Present(first) /\ Present(last)) =>
                  display_name = <<"D","r","."," ">> \o last
            /\ (~Present(org) /\ ~Present(last) /\ Present(stored)) =>
                  display_name = stored
            /\ (~Present(org) /\ ~Present(last) /\ ~Present(stored)) =>
                  display_name = <<"U","n","k","n","o","w","n"," ",
                                   "P","r","o","v","i","d","e","r">>

\* C17 witness: with no organization and an empty first name, the last name
\* has won over a stored provider_name.
C17_Witness ==
    /\ display_name = <<"D","r","."," ","D","o","e">>
    /\ nprovider.organization_name = Null
    /\ nprovider.first_name = <<>>
    /\ Present(nprovider.provider_name)

\* C18: in the step in which a task ends, a BuyingSignal insert is issued,
\* and a row added to the buying-signals table, only if the primary write
\* step returned (the insert, or the fallback update, which touches no row
\* but those of the generated id); when the insert and the update both
\* raised, neither table changes, whatever the score.
C18_SignalOnlyAfterPrimaryWrite ==
    [][\A k \in DOMAIN pipe :
          (/\ k \in DOMAIN pipe'
           /\ pipe[k].st = "fetching"
           /\ pipe'[k].st = "done")
              => /\ buying' # buying => pipe'[k].primary \in {"inserted", "updated"}
                 /\ pipe'[k].signal # "none" =>
                       pipe'[k].primary \in {"inserted", "updated"}
                 /\ pipe'[k].primary = "updated" =>
                       {r \in intel' : r.rpin_id # pipe'[k].key}
                           = {r \in intel : r.rpin_id # pipe'[k].key}
                 /\ pipe'[k].primary = "failed" =>
                       /\ pipe'[k].signal = "none"
                       /\ buying' = buying
                       /\ intel' = intel]_vars

\* C18 witness: a pass with a score >= 30 whose insert and fallback update
\* both raised has ended as a hot lead without a BuyingSignal.
C18_Witness ==
    \E k \in DOMAIN pipe :
        /\ pipe[k].st = "done"
        /\ pipe[k].primary = "failed"
        /\ pipe[k].score >= 30
        /\ pipe[k].signal = "none"
        /\ PassSignals(k) = {}
        /\ hot_leads_found > 0

\* row n is in the pool, carries a registry id, and no record of the
\* intelligence table carries that registry id
Eligible(n) ==
    /\ InPool(n)
    /\ Truthy(directory[n].npi)
    /\ directory[n].npi \notin NpisOf(intel)

\* the pass of task k ends in this step with nothing persisted: its
\* classification raised, its score is <= 0, or its insert and update raised
EndsUnsaved(k) ==
    /\ k \in DOMAIN pipe'
    /\ pipe[k].st = "fetching"
    /\ pipe'[k].st \in {"done", "failed"}
    /\ pipe'[k].primary \in {"none", "failed"}

\* C19 as stated: when the pass of a Target ends with a score <= 0, or with
\* its persistence failed, the intelligence table holds no record for the
\* registry id of that Target.
C19_UnsavedTargetHasNoRecord ==
    [][\A k \in DOMAIN pipe :
          EndsUnsaved(k) => selected[k].npi \notin NpisOf(intel')]_vars

\* C19 amended: a pass that ends with a score <= 0, or with its insert and
\* update failed, adds no record to the intelligence table; and a selection
\* holds every row of the pool with a registry id that no record carries and
\* that is among the first CycleLimit such rows, in every cycle: a Target
\* is selected again for as long as no record with its registry id exists.
C19_UnsavedTargetIsSelectedAgain ==
    /\ [][\A k \in DOMAIN pipe :
             EndsUnsaved(k) => NpisOf(intel') = NpisOf(intel)]_vars
    /\ [](JustSelected =>
             \A n \in 1..Len(directory) :
                 (/\ Eligible(n)
                  /\ Cardinality({m \in 1..n : Eligible(m)}) <= CycleLimit)
                     => \E k \in 1..Len(selected) : selected[k] = directory[n])

\* C19 witness: the second cycle, after a first one without any failure
\* that persisted the first row of the directory and passed over the third
\* with a score <= 0, has selected that third row again.
C19_Witness ==
    /\ JustSelected
    /\ cycle_count = 2
    /\ faults = 0
    /\ directory = DirCap
    /\ \E r \in intel : r.npi = directory[1].npi /\ r.rpin_id[2] > 0
    /\ providers_enriched = 2
    /\ selected[1] = directory[3]

\* C20: a row of an allow-listed region that the directory query returns
\* after its first PoolLimit rows is in no selection of any cycle, whatever
\* the number of rows of the pool that are still eligible, and every record
\* the engine writes carries the registry id of a row of the pool.
C20_RowsBeyondThePoolAreNeverSelected ==
    /\ \A n \in 1..Len(directory) :
          (directory[n].state \in AllowedStates /\ ~InPool(n))
              => \A k \in 1..Len(selected) : selected[k] # directory[n]
    /\ \A r \in intel :
          r.rpin_id[2] > 0
              => \E n \in 1..Len(directory) : InPool(n) /\ directory[n].npi = r.npi

\* C20 witness: the selection of the second cycle holds fewer Targets than
\* the cap allows, while an allow-listed row with a registry id and without
\* a record stands beyond the pool.
C20_Witness ==
    /\ JustSelected
    /\ cycle_count = 2
    /\ Len(selected) < CycleLimit
    /\ \E n \in 1..Len(directory) :
          /\ directory[n].state \in AllowedStates
          /\ ~InPool(n)
          /\ Truthy(directory[n].npi)
          /\ directory[n].npi \notin NpisOf(intel)
          /\ Web(directory[n].id, "google") # <<>>

====
